---- MODULE Spec2Model ----
(***************************************************************************)
(* A model of the configuration-synthesis and deployment-coordination      *)
(* layer of django-orchestra:                                              *)
(*   - the Apache restart coordination script of Apache2Backend            *)
(*     (prepare / commit, /dev/shm/restart.apache2),                       *)
(*   - the diff-then-apply script of Apache2Backend.save and the script    *)
(*     buffer save appends to,                                             *)
(*   - Apache2Backend.get_ssl and the fragment order of                    *)
(*     render_virtual_host,                                                *)
(*   - the awk program of Apache2Traffic,                                  *)
(*   - Domain.refresh_serial, Domain.save / get_parent_domain,             *)
(*   - Domain.get_records and Domain.render_zone.                          *)
(***************************************************************************)
EXTENDS Integers, Sequences, FiniteSets, TLC

VARIABLES
    \* ---- restart coordination (apache.py prepare/commit) ----
    normal,          \* /dev/shm/restart.apache2
    locked,          \* /dev/shm/restart.apache2.locked
    pc,              \* position of each backend's script
    UPDATED_APACHE,  \* shell variable of each backend's script
    is_last,         \* shell variable of each backend's script
    state,           \* shell variable of each backend's script
    reloadLog,       \* the "service apache2 reload/start" calls made so far
    lockFailed,      \* backends whose two mv attempts both failed
    ops,             \* what each backend did to the record after its mv attempts
    lateJoin,        \* some prepare ran after another backend had begun its commit
    \* ---- deployed site configuration (apache.py save/delete) ----
    sites_available, \* <base>/sites-available/<unique_name>.conf
    sites_enabled,   \* the symlink <base>/sites-enabled/<unique_name>.conf exists
    applied,         \* the site whose save script ran last on the unchanged host
    lastRun,         \* what the last executed script did
    \* ---- Domain.serial (models.py refresh_serial) ----
    serial,          \* Domain.serial
    today,           \* datetime.date.today(), as YYYYMMDD
    serialCall,      \* the last refresh_serial call: outcome and serial before it
    \* ---- Domain objects (models.py save / get_parent_domain) ----
    registered,      \* the names of the stored domains
    top,             \* Domain.top of each stored domain (NoDomain: null)
    \* ---- one domain's zone (models.py get_records) ----
    declared,        \* the domain's Record objects, in persisted order
    zone_top,        \* Domain.is_top of the domain
    zone_refresh,    \* Domain.refresh of the domain ("" when blank)
    settings,        \* the DOMAINS_DEFAULT_* settings
    resolved,        \* the result of the last get_records() call, if still current
    \* ---- one zone's subdomains (models.py render_zone) ----
    subdomain_set,   \* the rows of origin.subdomain_set, in stored order
    rendered,        \* the result of the last render_zone() call, if still current
    \* ---- traffic monitor (apache.py Apache2Traffic) ----
    log_file,        \* the lines of the access log: timestamp and size ($NF)
    monitored,       \* the last monitor call: its window and the sum it printed
    \* ---- script buffer of one pass (apache.py save) ----
    cmds,            \* the statements appended to the script so far
    built,           \* the last save(site) call: what it raised, the buffer before it
    \* ---- SSL fragment of a virtual host (apache.py get_ssl) ----
    ssl_call,        \* the last get_ssl call: its inputs and the fragments returned
    \* ---- fragments of a virtual host (apache.py render_virtual_host) ----
    site_fragments,  \* the locations each collector yields for the site, in order
    vhost            \* the last render_virtual_host call: collected and sorted fragments

coordVars == <<normal, locked, pc, UPDATED_APACHE, is_last, state, reloadLog,
               lockFailed, ops, lateJoin>>

saveVars == <<sites_available, sites_enabled, applied, lastRun>>

serialVars == <<serial, today, serialCall>>

domainVars == <<registered, top>>

zoneVars == <<declared, zone_top, zone_refresh, settings, resolved>>

renderVars == <<subdomain_set, rendered>>

monitorVars == <<log_file, monitored>>

builderVars == <<cmds, built>>

sslVars == <<ssl_call>>

vhostVars == <<site_fragments, vhost>>

vars == <<coordVars, saveVars, serialVars, domainVars, zoneVars, renderVars, monitorVars, builderVars, sslVars, vhostVars>>

(***************************************************************************)
(* Text of the shared record.  A text is a sequence of tokens: a backend   *)
(* name, the marker " RESTART", or the line terminator NL.                 *)
(***************************************************************************)
NumBackends == 3

BackendNames == <<"Apache2Backend", "PHPBackend", "WebalizerBackend",
                  "MooseFSBackend", "UwsgiBackend">>

Backends == {BackendNames[i] : i \in 1..NumBackends}

NumContenders == 2

Contenders == {BackendNames[i] : i \in 1..NumContenders}

NL == "NL"

RESTART == " RESTART"

NoFile == [exists |-> FALSE, text |-> <<>>]

File(t) == [exists |-> TRUE, text |-> t]

\* the position of the first NL of a text, 0 when there is none
FirstNL(t) ==
    IF \E i \in 1..Len(t) : t[i] = NL
    THEN CHOOSE i \in 1..Len(t) : t[i] = NL /\ \A j \in 1..(i-1) : t[j] # NL
    ELSE 0

\* the lines of a text, as grep reads them: a last line needs no terminator
RECURSIVE SplitLines(_)
SplitLines(t) ==
    IF t = <<>> THEN <<>>
    ELSE LET i == FirstNL(t)
         IN  IF i = 0 THEN <<t>>
             ELSE <<SubSeq(t, 1, i-1)>> \o SplitLines(SubSeq(t, i+1, Len(t)))

\* lines printed one per line, each terminated
RECURSIVE PrintLines(_)
PrintLines(ls) ==
    IF ls = <<>> THEN <<>>
    ELSE Head(ls) \o <<NL>> \o PrintLines(Tail(ls))

\* $( ... ): the output with its trailing newlines removed
RECURSIVE CommandSubst(_)
CommandSubst(t) ==
    IF t # <<>> /\ t[Len(t)] = NL THEN CommandSubst(SubSeq(t, 1, Len(t)-1))
    ELSE t

Contains(line, tok) == \E i \in 1..Len(line) : line[i] = tok

EndsWithRestart(line) == line # <<>> /\ line[Len(line)] = RESTART

\* grep -v "$backend" FILE: the lines that do not contain the backend's name
GrepNotBackend(t, b) == SelectSeq(SplitLines(t), LAMBDA l : ~Contains(l, b))

\* echo "$state" | grep -v ' RESTART$': the lines of state not marked
GrepNotRestart(st) == SelectSeq(SplitLines(st \o <<NL>>), LAMBDA l : ~EndsWithRestart(l))

\* the backends that have registered and whose commit has not ended
Pending(b) == {c \in Backends \ {b} : pc[c] \notin {"start", "done", "failed"}}

\* set -e of the script preamble: a failing simple command ends the script
ErrExit == TRUE

InitCoord ==
    /\ normal = NoFile
    /\ locked = NoFile
    /\ pc = [b \in Backends |-> "start"]
    /\ UPDATED_APACHE = [b \in Backends |-> 0]
    /\ is_last = [b \in Backends |-> 0]
    /\ state = [b \in Backends |-> <<>>]
    /\ reloadLog = <<>>
    /\ lockFailed = {}
    /\ ops = [b \in Backends |-> {}]
    /\ lateJoin = FALSE

\* prepare: echo "$backend" >> /dev/shm/restart.apache2
Prepare(b) ==
    /\ pc[b] = "start"
    /\ normal' = File(normal.text \o <<b, NL>>)
    /\ pc' = [pc EXCEPT ![b] = "prepared"]
    /\ lateJoin' = (lateJoin \/ \E c \in Backends : pc[c] \notin {"start", "prepared"})
    /\ UNCHANGED <<locked, UPDATED_APACHE, is_last, state, reloadLog, lockFailed, ops>>

\* the save/delete statements of the pass: UPDATED_APACHE=1 when one of them
\* found a difference
SaveSites(b) ==
    /\ pc[b] = "prepared"
    /\ \E u \in {0, 1} : UPDATED_APACHE' = [UPDATED_APACHE EXCEPT ![b] = u]
    /\ pc' = [pc EXCEPT ![b] = "lock"]
    /\ UNCHANGED <<normal, locked, is_last, state, reloadLog, lockFailed, ops, lateJoin>>

\* mv /dev/shm/restart.apache2 /dev/shm/restart.apache2.locked
\* rename(2) replaces an existing destination
MvLock(b, onFailure) ==
    IF normal.exists
    THEN /\ locked' = normal
         /\ normal' = NoFile
         /\ pc' = [pc EXCEPT ![b] = "grep"]
         /\ UNCHANGED lockFailed
    ELSE /\ pc' = [pc EXCEPT ![b] = onFailure]
         /\ lockFailed' = IF onFailure = "sleep" THEN lockFailed ELSE lockFailed \cup {b}
         /\ UNCHANGED <<normal, locked>>

\* is_last=0 ; mv ... || { sleep 0.2 ; ... }
CommitLock(b) ==
    /\ pc[b] = "lock"
    /\ MvLock(b, "sleep")
    /\ is_last' = [is_last EXCEPT ![b] = 0]
    /\ UNCHANGED <<UPDATED_APACHE, state, reloadLog, ops, lateJoin>>

\* the retry's failure is swallowed: the script goes on to the grep
CommitRetrySwallow(b) ==
    /\ pc[b] = "sleep"
    /\ MvLock(b, "grep")
    /\ UNCHANGED <<UPDATED_APACHE, is_last, state, reloadLog, ops, lateJoin>>

\* sleep 0.2 ; mv ... : the last command of the || list, so its failure ends
\* the script under set -e
CommitRetry(b) ==
    /\ pc[b] = "sleep"
    /\ MvLock(b, IF ErrExit THEN "failed" ELSE "grep")
    /\ UNCHANGED <<UPDATED_APACHE, is_last, state, reloadLog, ops, lateJoin>>

\* state="$(grep -v "$backend" LOCKED)" || is_last=1
\* [[ $is_last -eq 0 ]] && { echo "$state" | grep -v ' RESTART$' || is_last=1 }
CommitRead(b) ==
    /\ pc[b] = "grep"
    /\ LET others == IF locked.exists THEN GrepNotBackend(locked.text, b) ELSE <<>>
           st     == CommandSubst(PrintLines(others))
           last1  == IF others = <<>> THEN 1 ELSE is_last[b]
           last2  == IF last1 = 0 /\ GrepNotRestart(st) = <<>> THEN 1 ELSE last1
       IN  /\ state' = [state EXCEPT ![b] = st]
           /\ is_last' = [is_last EXCEPT ![b] = last2]
           /\ pc' = [pc EXCEPT ![b] =
                        IF last2 = 1
                        THEN IF UPDATED_APACHE[b] = 1 \/ EndsWithRestart(st)
                             THEN "reload" ELSE "rm"
                        ELSE "write"]
    /\ ops' = [ops EXCEPT ![b] = @ \cup {"read"}]
    /\ UNCHANGED <<normal, locked, UPDATED_APACHE, reloadLog, lockFailed, lateJoin>>

\* service apache2 reload / service apache2 start
CommitReload(b) ==
    /\ pc[b] = "reload"
    /\ reloadLog' = Append(reloadLog, [by |-> b, pending |-> Pending(b)])
    /\ pc' = [pc EXCEPT ![b] = "rm"]
    /\ ops' = [ops EXCEPT ![b] = @ \cup {"reload"}]
    /\ UNCHANGED <<normal, locked, UPDATED_APACHE, is_last, state, lockFailed, lateJoin>>

\* rm /dev/shm/restart.apache2.locked
CommitRm(b) ==
    /\ pc[b] = "rm"
    /\ locked' = NoFile
    /\ pc' = [pc EXCEPT ![b] = IF locked.exists \/ ~ErrExit THEN "done" ELSE "failed"]
    /\ ops' = [ops EXCEPT ![b] = @ \cup {"rm"}]
    /\ UNCHANGED <<normal, UPDATED_APACHE, is_last, state, reloadLog, lockFailed, lateJoin>>

\* echo -n "$state" > /dev/shm/restart.apache2.locked
CommitWrite(b) ==
    /\ pc[b] = "write"
    /\ locked' = File(state[b])
    /\ pc' = [pc EXCEPT ![b] = IF UPDATED_APACHE[b] = 1 THEN "mark" ELSE "release"]
    /\ ops' = [ops EXCEPT ![b] = @ \cup {"write"}]
    /\ UNCHANGED <<normal, UPDATED_APACHE, is_last, state, reloadLog, lockFailed, lateJoin>>

\* echo "$backend RESTART" >> /dev/shm/restart.apache2.locked
CommitMark(b) ==
    /\ pc[b] = "mark"
    /\ locked' = File(locked.text \o <<b, RESTART, NL>>)
    /\ pc' = [pc EXCEPT ![b] = "release"]
    /\ ops' = [ops EXCEPT ![b] = @ \cup {"write"}]
    /\ UNCHANGED <<normal, UPDATED_APACHE, is_last, state, reloadLog, lockFailed, lateJoin>>

\* mv /dev/shm/restart.apache2.locked /dev/shm/restart.apache2
CommitRelease(b) ==
    /\ pc[b] = "release"
    /\ IF locked.exists
       THEN /\ normal' = locked
            /\ locked' = NoFile
            /\ pc' = [pc EXCEPT ![b] = "done"]
       ELSE /\ pc' = [pc EXCEPT ![b] = IF ErrExit THEN "failed" ELSE "done"]
            /\ UNCHANGED <<normal, locked>>
    /\ ops' = [ops EXCEPT ![b] = @ \cup {"mv"}]
    /\ UNCHANGED <<UPDATED_APACHE, is_last, state, reloadLog, lockFailed, lateJoin>>

\* one statement of backend b's script
Step(b) ==
    \/ Prepare(b)
    \/ SaveSites(b)
    \/ CommitLock(b)
    \/ CommitRetry(b)
    \/ CommitRead(b)
    \/ CommitReload(b)
    \/ CommitRm(b)
    \/ CommitWrite(b)
    \/ CommitMark(b)
    \/ CommitRelease(b)

\* the scripts of all backends run concurrently
NextCoord ==
    /\ \E b \in Backends : Step(b)
    /\ UNCHANGED <<saveVars, serialVars, domainVars, zoneVars, renderVars, monitorVars,
                   builderVars, sslVars, vhostVars>>

\* a pass in which only the first NumContenders backends take part
NextContend ==
    /\ \E b \in Contenders : Step(b)
    /\ UNCHANGED <<saveVars, serialVars, domainVars, zoneVars, renderVars, monitorVars,
                   builderVars, sslVars, vhostVars>>

(***************************************************************************)
(* Apache2Backend.save / delete: the diff-then-apply script of one site,   *)
(* executed on the host.                                                   *)
(***************************************************************************)
NumContents == 2

NumBanners == 2

Protocols == {"http", "https", "http/https", "https-only"}

\* the attributes of the site that save reads
Sites == [server_name : BOOLEAN, active : BOOLEAN, protocol : Protocols,
          content : 1..NumContents]

NoSite == [server_name |-> FALSE, active |-> FALSE, protocol |-> "none", content |-> 0]

\* '# %(banner)s\n'
BannerLine(t) == [comment |-> TRUE, kind |-> "banner", port |-> 0, content |-> t]

HTTP_PORT == 80

HTTPS_PORT == 443

\* render_virtual_host(site, context, ssl)
VirtualHost(site, ssl) ==
    [comment |-> FALSE, kind |-> "vhost", port |-> IF ssl THEN HTTPS_PORT ELSE HTTP_PORT,
     content |-> site.content]

\* render_redirect_https(context)
RedirectHttps(site) ==
    [comment |-> FALSE, kind |-> "redirect", port |-> HTTP_PORT, content |-> 0]

\* apache_conf of save: the banner, then the documents the protocol asks for
ApacheConf(site, banner) ==
    <<BannerLine(banner)>>
    \o (IF site.protocol \in {"http", "http/https"}
        THEN <<VirtualHost(site, FALSE)>> ELSE <<>>)
    \o (IF site.protocol \in {"http/https", "https-only", "https"}
        THEN <<VirtualHost(site, TRUE)>> ELSE <<>>)
    \o (IF site.protocol = "https-only" THEN <<RedirectHttps(site)>> ELSE <<>>)

NotComment(line) == ~line.comment

\* diff without -I: every changed line counts
DiffNoIgnore(old, new) == old # new

\* diff -N -I'^\s*#' FILE - : TRUE when a difference is reported.  The texts
\* compared hold a comment only as their first line, so the hunks diff ignores
\* are exactly the banner changes.
Diff(old, new) == SelectSeq(old, NotComment) # SelectSeq(new, NotComment)

\* [[ -f sites_enabled ]]: the symlink exists and points to a regular file
EnabledFile(avail, link) == link /\ avail.exists

IdleSave ==
    /\ sites_available = NoFile
    /\ sites_enabled = FALSE
    /\ applied = NoSite
    /\ lastRun = [repeat |-> FALSE, wrote |-> FALSE, toggled |-> FALSE, UPDATED_APACHE |-> 0,
                  banner |-> 0]

\* save(site) is built with the banner of the moment and its script executed
Save(site, banner) ==
    LET conf    == ApacheConf(site, banner)
        differs == site.server_name /\ Diff(sites_available.text, conf)
        avail   == IF differs THEN File(conf) ELSE sites_available
        on      == EnabledFile(avail, sites_enabled)
        enable  == site.server_name /\ site.active /\ ~on
        disable == ~(site.server_name /\ site.active) /\ on
    IN  /\ sites_available' = avail
        /\ sites_enabled' = IF enable THEN TRUE ELSE IF disable THEN FALSE ELSE sites_enabled
        /\ lastRun' = [repeat |-> applied = site,
                       wrote |-> differs,
                       toggled |-> enable \/ disable,
                       UPDATED_APACHE |-> IF differs \/ enable \/ disable THEN 1 ELSE 0,
                       banner |-> banner]
        /\ applied' = site

\* delete(site): a2dissite ... && UPDATED_APACHE=1 ; rm -f sites_available
Delete ==
    /\ sites_available' = NoFile
    /\ sites_enabled' = FALSE
    /\ lastRun' = [repeat |-> FALSE, wrote |-> FALSE, toggled |-> sites_enabled,
                   UPDATED_APACHE |-> IF sites_available.exists THEN 1 ELSE 0,
                   banner |-> 0]
    /\ applied' = NoSite

NextSave ==
    /\ \/ \E site \in Sites, banner \in 1..NumBanners : Save(site, banner)
       \/ Delete
    /\ UNCHANGED <<coordVars, serialVars, domainVars, zoneVars, renderVars, monitorVars, builderVars, sslVars, vhostVars>>

(***************************************************************************)
(* Domain.refresh_serial                                                   *)
(***************************************************************************)
NumDays == 3

\* "%.4d%.2d%.2d" % (year, month, day)
Date(year, month, day) == year * 10000 + month * 100 + day

\* the first calendar day of the runs
FirstDay == Date(2015, 1, 1)

Days == {FirstDay + k : k \in 0..(NumDays - 1)}

\* str(n) of a natural number: its decimal digits
RECURSIVE Str(_)
Str(n) == IF n < 10 THEN <<n>> ELSE Append(Str(n \div 10), n % 10)

\* int(s) of a digit string
RECURSIVE ParseInt(_)
ParseInt(s) ==
    IF Len(s) = 1 THEN s[1]
    ELSE 10 * ParseInt(SubSeq(s, 1, Len(s) - 1)) + s[Len(s)]

\* '%.2d' % num
Format2d(num) == IF num < 10 THEN <<0, num>> ELSE Str(num)

\* s[i:] and s[:i] of Python, for 0 <= i
SliceFrom(s, i) == SubSeq(s, i + 1, Len(s))

SliceTo(s, i) == SubSeq(s, 1, IF i < Len(s) THEN i ELSE Len(s))

\* utils.generate_zone_serial(): today's date followed by the counter 00
generate_zone_serial(day) == ParseInt(Str(day) \o <<0, 0>>)

\* refresh_serial with "serial < self.serial" for its comparison
RefreshedSerialLess(stored, day) ==
    LET fresh == generate_zone_serial(day)
    IN  IF fresh < stored
        THEN LET num == ParseInt(SliceFrom(Str(stored), 8)) + 1
             IN  IF num >= 99 THEN [ok |-> FALSE, serial |-> stored]
                 ELSE [ok |-> TRUE,
                       serial |-> ParseInt(SliceTo(Str(stored), 8) \o Format2d(num))]
        ELSE [ok |-> TRUE, serial |-> fresh]

\* refresh_serial: the serial it stores, or the ValueError it raises
RefreshedSerial(stored, day) ==
    LET fresh == generate_zone_serial(day)
    IN  IF fresh <= stored
        THEN LET num == ParseInt(SliceFrom(Str(stored), 8)) + 1
             IN  IF num >= 99 THEN [ok |-> FALSE, serial |-> stored]
                 ELSE [ok |-> TRUE,
                       serial |-> ParseInt(SliceTo(Str(stored), 8) \o Format2d(num))]
        ELSE [ok |-> TRUE, serial |-> fresh]

\* a domain created on some day (serial default) and a clock on some day:
\* the stored serial may be ahead of today's
InitSerial ==
    /\ today \in Days
    /\ \E d \in Days : serial = generate_zone_serial(d)
    /\ serialCall = [outcome |-> "none", before |-> 0, day |-> 0]

IdleSerial ==
    /\ today = FirstDay
    /\ serial = generate_zone_serial(FirstDay)
    /\ serialCall = [outcome |-> "none", before |-> 0, day |-> 0]

\* refresh_serial()
RefreshSerial ==
    LET r == RefreshedSerial(serial, today)
    IN  /\ serial' = r.serial
        /\ serialCall' = [outcome |-> IF r.ok THEN "stored" ELSE "ValueError",
                          before |-> serial, day |-> today]
        /\ UNCHANGED today

\* midnight passes
NextDay ==
    /\ today + 1 \in Days
    /\ today' = today + 1
    /\ UNCHANGED <<serial, serialCall>>

NextSerial ==
    /\ \/ RefreshSerial
       \/ NextDay
    /\ UNCHANGED <<coordVars, saveVars, domainVars, zoneVars, renderVars, monitorVars, builderVars, sslVars, vhostVars>>

(***************************************************************************)
(* Domain.save / Domain.get_parent_domain / Domain.subdomains              *)
(* A domain name is the sequence of its characters.                        *)
(***************************************************************************)
NumNames == 7

\* b.c  a.b.c  x.a.b.c  x.a-b.c  a-b.c  y.b.c  x.y.b.c  y.a-b.c
NamePool == << <<"b", ".", "c">>,
               <<"a", ".", "b", ".", "c">>,
               <<"x", ".", "a", ".", "b", ".", "c">>,
               <<"x", ".", "a", "-", "b", ".", "c">>,
               <<"a", "-", "b", ".", "c">>,
               <<"y", ".", "b", ".", "c">>,
               <<"x", ".", "y", ".", "b", ".", "c">>,
               <<"y", ".", "a", "-", "b", ".", "c">> >>

Names == {NamePool[i] : i \in 1..NumNames}

NoDomain == <<>>

\* the position of the first "." of a name, 0 when there is none
FirstDot(n) ==
    IF \E i \in 1..Len(n) : n[i] = "."
    THEN CHOOSE i \in 1..Len(n) : n[i] = "." /\ \A j \in 1..(i-1) : n[j] # "."
    ELSE 0

\* name.split('.')
RECURSIVE Split(_)
Split(n) ==
    LET i == FirstDot(n)
    IN  IF i = 0 THEN <<n>>
        ELSE <<SubSeq(n, 1, i-1)>> \o Split(SubSeq(n, i+1, Len(n)))

\* '.'.join(labels)
RECURSIVE Join(_)
Join(labels) ==
    IF Len(labels) = 1 THEN labels[1]
    ELSE labels[1] \o <<".">> \o Join(Tail(labels))

\* the candidates of the loop of get_parent_domain, in loop order:
\* '.'.join(split[i:]) for i in range(1, len(split)-1)
Candidates(n) ==
    LET split == Split(n)
    IN  [k \in 1..(Len(split) - 2) |-> Join(SubSeq(split, k + 1, Len(split)))]

\* get_parent_domain(name, top=False): the first stored candidate
RECURSIVE FirstStored(_, _)
FirstStored(cands, stored) ==
    IF cands = <<>> THEN NoDomain
    ELSE IF Head(cands) \in stored THEN Head(cands)
    ELSE FirstStored(Tail(cands), stored)

\* get_parent_domain(name, top=True): the last stored candidate
RECURSIVE LastStored(_, _)
LastStored(cands, stored) ==
    IF cands = <<>> THEN NoDomain
    ELSE IF cands[Len(cands)] \in stored THEN cands[Len(cands)]
    ELSE LastStored(SubSeq(cands, 1, Len(cands) - 1), stored)

get_parent_domain(n, istop, stored) ==
    IF istop THEN LastStored(Candidates(n), stored) ELSE FirstStored(Candidates(n), stored)

\* name__regex = '\.%s$' % name: the "." of the name match any character
RegexMatches(pattern, n) ==
    /\ Len(n) >= Len(pattern) + 1
    /\ LET off == Len(n) - Len(pattern)
       IN  /\ n[off] = "."
           /\ \A i \in 1..Len(pattern) : pattern[i] = "." \/ pattern[i] = n[off + i]

\* Domain.subdomains of the domain called n
subdomains(n, stored) == {d \in stored : RegexMatches(n, d)}

IdleDomains ==
    /\ registered = {}
    /\ top = [n \in Names |-> NoDomain]

\* Domain(name=n).save() of a new object
Register(n) ==
    /\ n \notin registered
    /\ LET parent == get_parent_domain(n, TRUE, registered)
           update == parent = NoDomain
           stored == registered \cup {n}
       IN  /\ registered' = stored
           /\ top' = [d \in Names |->
                        IF d = n THEN parent
                        ELSE IF update /\ d \in subdomains(n, stored) THEN n
                        ELSE top[d]]

NextDomains ==
    /\ \E n \in Names : Register(n)
    /\ UNCHANGED <<coordVars, saveVars, serialVars, zoneVars, renderVars, monitorVars, builderVars, sslVars, vhostVars>>

(***************************************************************************)
(* Domain.get_records: the resolved record set of one domain.              *)
(* A record value is the sequence of its whitespace-separated words.       *)
(***************************************************************************)
MaxRecords == 2

\* Record.TYPE_CHOICES
Types == {"MX", "NS", "CNAME", "A", "AAAA", "SRV", "TXT", "SOA"}

\* a record without a ttl key (AttrDict built without ttl)
NoTTL == "no ttl"

DOMAINS_DEFAULT_TTL == "1h"

\* Record.get_ttl(): self.ttl or settings.DOMAINS_DEFAULT_TTL
get_ttl(record) == IF record.ttl # "" THEN record.ttl ELSE DOMAINS_DEFAULT_TTL

\* the Record objects a domain may declare: one value per type, and an A
\* record with a TTL of its own
DeclarableRecords ==
    { [type |-> "MX",    ttl |-> "", value |-> <<"10", "mail.b.c.">>],
      [type |-> "NS",    ttl |-> "", value |-> <<"ns.b.c.">>],
      [type |-> "CNAME", ttl |-> "", value |-> <<"www.b.c.">>],
      [type |-> "A",     ttl |-> "", value |-> <<"192.0.2.1">>],
      [type |-> "A",     ttl |-> "5m", value |-> <<"192.0.2.2">>],
      [type |-> "AAAA",  ttl |-> "", value |-> <<"2001:db8::1">>],
      [type |-> "SRV",   ttl |-> "", value |-> <<"0", "5", "5060", "sip.b.c.">>],
      [type |-> "TXT",   ttl |-> "", value |-> <<"v=spf1", "-all">>],
      [type |-> "SOA",   ttl |-> "", value |-> <<"ns.b.c.", "admin.b.c.", "2014123100",
                                                 "1d", "2h", "4w", "1h">>] }

\* the settings get_records reads: the lists and the optional A / AAAA
SettingsChoices ==
    [DOMAINS_DEFAULT_NS   : { <<"ns1.orchestra.lan.">>,
                              <<"ns1.orchestra.lan.", "ns2.orchestra.lan.">> },
     DOMAINS_DEFAULT_MX   : { <<"10 mail.orchestra.lan.">>,
                              <<"10 mail.orchestra.lan.", "20 mail2.orchestra.lan.">> },
     DOMAINS_DEFAULT_A    : {"", "10.0.3.13"},
     DOMAINS_DEFAULT_AAAA : {"", "2001:db8::13"}]

DOMAINS_DEFAULT_NAME_SERVER == "ns.orchestra.lan"

\* utils.format_hostmaster(settings.DOMAINS_DEFAULT_HOSTMASTER)
FormattedHostmaster == "hostmaster.orchestra.lan."

DOMAINS_DEFAULT_REFRESH == "1d"

DOMAINS_DEFAULT_RETRY == "2h"

DOMAINS_DEFAULT_EXPIRE == "4w"

DOMAINS_DEFAULT_MIN_TTL == "4h"

\* the keys of the types dict after the loop over the declared records
DeclaredTypes(decl) == {decl[i].type : i \in 1..Len(decl)}

\* the words of a declared SOA value left as they were declared
RewriteSerialKeep(value, ser) == value

\* value[2] = str(self.serial) of the words of a declared SOA value
RewriteSerial(value, ser) == [value EXCEPT ![3] = ToString(ser)]

\* the loop over get_declared_records(): a SOA is inserted at 0 with the
\* current serial, any other record is appended
RECURSIVE DeclaredLoop(_, _, _)
DeclaredLoop(decl, ser, records) ==
    IF decl = <<>> THEN records
    ELSE LET record == Head(decl)
         IN  DeclaredLoop(Tail(decl), ser,
                 IF record.type = "SOA"
                 THEN <<[type |-> "SOA", ttl |-> get_ttl(record),
                         value |-> RewriteSerial(record.value, ser)]>> \o records
                 ELSE Append(records, [type |-> record.type, ttl |-> get_ttl(record),
                                       value |-> record.value]))

\* one record of the given type per entry of a settings list, in list order
DefaultsOf(type, list) ==
    [i \in 1..Len(list) |-> [type |-> type, ttl |-> NoTTL, value |-> <<list[i]>>]]

\* the default name servers, injected whatever the declared types are
DefaultNSAlways(types, cfg) == DefaultsOf("NS", cfg.DOMAINS_DEFAULT_NS)

\* if Record.NS not in types: one NS record per DOMAINS_DEFAULT_NS entry
DefaultNS(types, cfg) ==
    IF "NS" \notin types THEN DefaultsOf("NS", cfg.DOMAINS_DEFAULT_NS) ELSE <<>>

\* if Record.SOA not in types: the synthesized SOA
DefaultSOA(types, ser, refresh) ==
    IF "SOA" \notin types
    THEN <<[type |-> "SOA", ttl |-> NoTTL,
            value |-> <<DOMAINS_DEFAULT_NAME_SERVER \o ".",
                        FormattedHostmaster,
                        ToString(ser),
                        IF refresh # "" THEN refresh ELSE DOMAINS_DEFAULT_REFRESH,
                        DOMAINS_DEFAULT_RETRY,
                        DOMAINS_DEFAULT_EXPIRE,
                        DOMAINS_DEFAULT_MIN_TTL>>]>>
    ELSE <<>>

\* if Record.MX not in types: one MX record per DOMAINS_DEFAULT_MX entry
DefaultMX(types, cfg) ==
    IF "MX" \notin types THEN DefaultsOf("MX", cfg.DOMAINS_DEFAULT_MX) ELSE <<>>

\* the default A and AAAA injected whenever no A is declared, whatever the
\* declared AAAA records
DefaultAddressesNoAAAACheck(types, cfg) ==
    IF "A" \notin types
    THEN (IF cfg.DOMAINS_DEFAULT_A # ""
          THEN <<[type |-> "A", ttl |-> NoTTL, value |-> <<cfg.DOMAINS_DEFAULT_A>>]>>
          ELSE <<>>)
         \o (IF cfg.DOMAINS_DEFAULT_AAAA # ""
             THEN <<[type |-> "AAAA", ttl |-> NoTTL, value |-> <<cfg.DOMAINS_DEFAULT_AAAA>>]>>
             ELSE <<>>)
    ELSE <<>>

\* if not has_a and not has_aaaa: the default A and AAAA, each if configured
DefaultAddresses(types, cfg) ==
    IF "A" \notin types /\ "AAAA" \notin types
    THEN (IF cfg.DOMAINS_DEFAULT_A # ""
          THEN <<[type |-> "A", ttl |-> NoTTL, value |-> <<cfg.DOMAINS_DEFAULT_A>>]>>
          ELSE <<>>)
         \o (IF cfg.DOMAINS_DEFAULT_AAAA # ""
             THEN <<[type |-> "AAAA", ttl |-> NoTTL, value |-> <<cfg.DOMAINS_DEFAULT_AAAA>>]>>
             ELSE <<>>)
    ELSE <<>>

\* Domain.get_records()
get_records(decl, istop, ser, refresh, cfg) ==
    LET types   == DeclaredTypes(decl)
        records == DeclaredLoop(decl, ser, <<>>)
        zone    == IF istop
                   THEN DefaultSOA(types, ser, refresh) \o records \o DefaultNS(types, cfg)
                   ELSE records
        is_host == istop \/ types = {} \/ "A" \in types \/ "AAAA" \in types
    IN  IF is_host
        THEN zone \o DefaultMX(types, cfg) \o DefaultAddresses(types, cfg)
        ELSE zone

NotResolved == [valid |-> FALSE, records |-> <<>>]

IdleZone ==
    /\ declared = <<>>
    /\ zone_top = TRUE
    /\ zone_refresh = ""
    /\ settings = [DOMAINS_DEFAULT_NS |-> <<"ns1.orchestra.lan.">>,
                   DOMAINS_DEFAULT_MX |-> <<"10 mail.orchestra.lan.">>,
                   DOMAINS_DEFAULT_A |-> "", DOMAINS_DEFAULT_AAAA |-> ""]
    /\ resolved = NotResolved

\* a domain, top or not, with no record yet, under some settings
InitZone ==
    /\ declared = <<>>
    /\ zone_top \in BOOLEAN
    /\ zone_refresh \in {"", "2d"}
    /\ settings \in SettingsChoices
    /\ resolved = NotResolved

\* a Record of the domain is stored
AddRecord(r) ==
    /\ Len(declared) < MaxRecords
    /\ declared' = Append(declared, r)
    /\ resolved' = NotResolved
    /\ UNCHANGED <<zone_top, zone_refresh, settings>>

\* domain.get_records()
GetRecords ==
    /\ resolved' = [valid |-> TRUE,
                    records |-> get_records(declared, zone_top, serial, zone_refresh,
                                            settings)]
    /\ UNCHANGED <<declared, zone_top, zone_refresh, settings>>

NextZone ==
    /\ \/ \E r \in DeclarableRecords : AddRecord(r)
       \/ GetRecords
    /\ UNCHANGED <<coordVars, saveVars, serialVars, domainVars, renderVars, monitorVars, builderVars, sslVars, vhostVars>>

(***************************************************************************)
(* Domain.render_zone: the order in which the domains of a zone are        *)
(* rendered.  A rendered zone is the sequence of the names whose           *)
(* render_records() text was appended, one entry per domain.               *)
(***************************************************************************)
MaxSubs == 3

NumSubNames == 5

\* the name of the origin: b.c
Origin == <<"b", ".", "c">>

\* x.b.c  a.b.c  *.b.c  *.a.b.c  *.x.b.c  y.b.c
SubNamePool == << <<"x", ".", "b", ".", "c">>,
                  <<"a", ".", "b", ".", "c">>,
                  <<"*", ".", "b", ".", "c">>,
                  <<"*", ".", "a", ".", "b", ".", "c">>,
                  <<"*", ".", "x", ".", "b", ".", "c">>,
                  <<"y", ".", "b", ".", "c">> >>

SubNames == {SubNamePool[i] : i \in 1..NumSubNames}

\* subdomain.name.startswith('*')
StartsWithStar(n) == Len(n) >= 1 /\ n[1] = "*"

\* the elements of a sequence
Range(seq) == {seq[i] : i \in 1..Len(seq)}

\* origin.subdomain_set.all(): the model declares no ordering, so the rows
\* come in whatever order the database returns them
QuerysetOrders(rows) ==
    {q \in [1..Len(rows) -> Range(rows)] : Range(q) = Range(rows)}

\* the place of x in a list sorted by descending length: behind every
\* element that is at least as long (the sort is stable)
RECURSIVE InsertByLen(_, _)
InsertByLen(x, sorted) ==
    IF sorted = <<>> THEN <<x>>
    ELSE IF Len(Head(sorted)) >= Len(x)
         THEN <<Head(sorted)>> \o InsertByLen(x, Tail(sorted))
         ELSE <<x>> \o sorted

\* reversed(sorted(reversed(tail), key=len)) is what
\* sorted(tail, key=lambda x: len(x.name), reverse=True) computes
RECURSIVE SortedByLenReverse(_)
SortedByLenReverse(tail) ==
    IF tail = <<>> THEN <<>>
    ELSE InsertByLen(tail[Len(tail)], SortedByLenReverse(SubSeq(tail, 1, Len(tail) - 1)))

\* Domain.render_zone() over the rows get_subdomains() returned
render_zone(rows) ==
    LET tail == SelectSeq(rows, StartsWithStar)
        body == SelectSeq(rows, LAMBDA n : ~StartsWithStar(n))
    IN  <<Origin>> \o body \o SortedByLenReverse(tail)

NotRendered == [valid |-> FALSE, zone |-> <<>>]

IdleRender ==
    /\ subdomain_set = <<>>
    /\ rendered = NotRendered

\* a subdomain of the origin is stored
StoreSubdomain(n) ==
    /\ Len(subdomain_set) < MaxSubs
    /\ n \notin Range(subdomain_set)
    /\ subdomain_set' = Append(subdomain_set, n)
    /\ rendered' = NotRendered

\* domain.render_zone()
RenderZone ==
    /\ \E rows \in QuerysetOrders(subdomain_set) :
          rendered' = [valid |-> TRUE, zone |-> render_zone(rows)]
    /\ UNCHANGED subdomain_set

NextRender ==
    /\ \/ \E n \in SubNames : StoreSubdomain(n)
       \/ RenderZone
    /\ UNCHANGED <<coordVars, saveVars, serialVars, domainVars, zoneVars, monitorVars, builderVars, sslVars, vhostVars>>

(***************************************************************************)
(* Apache2Traffic: the awk program of the monitor function.  A timestamp   *)
(* is the pair of its YYYYmmdd and HHMMSS digits; the awk program compares *)
(* the 14-digit concatenations, that is the pairs in lexicographic order.  *)
(***************************************************************************)
MaxLines == 2

MaxSecond == 5

\* date "+%Y%m%d%H%M%S" / year month day hour minute second
Stamp(date, hour, minute, second) ==
    [date |-> date, time |-> hour * 10000 + minute * 100 + second]

\* the instants of the runs: 10:00:00 .. 10:00:0<MaxSecond> of one day
Instants == {Stamp(Date(2014, 7, 11), 10, 0, sec) : sec \in 0..MaxSecond}

\* the values of the last word of a log line
Sizes == {50, 100}

\* a > b of two 14-digit dates
After(a, b) == a.date > b.date \/ (a.date = b.date /\ a.time > b.time)

\* a < b of two 14-digit dates
Before(a, b) == After(b, a)

\* the body of the awk program over the lines, from sum = 0:
\* if ( line_date > ini && line_date < end) sum += $NF
RECURSIVE AwkSum(_, _, _)
AwkSum(lines, ini, end) ==
    IF lines = <<>> THEN 0
    ELSE LET line == lines[Len(lines)]
             rest == AwkSum(SubSeq(lines, 1, Len(lines) - 1), ini, end)
         IN  IF After(line.line_date, ini) /\ Before(line.line_date, end)
             THEN rest + line.size
             ELSE rest

NotMonitored == [valid |-> FALSE, ini |-> 0, end |-> 0, sum |-> 0]

IdleMonitor ==
    /\ log_file = <<>>
    /\ monitored = NotMonitored

\* apache writes a request to the access log: lines are in time order
LogRequest(t, size) ==
    /\ Len(log_file) < MaxLines
    /\ log_file # <<>> => ~After(log_file[Len(log_file)].line_date, t)
    /\ log_file' = Append(log_file, [line_date |-> t, size |-> size])
    /\ monitored' = NotMonitored

\* monitor OBJECT_ID "<last_date>" LOG_FILE with current_date = end
Monitor(ini, end) ==
    /\ ~After(ini, end)
    /\ monitored' = [valid |-> TRUE, ini |-> ini, end |-> end,
                     sum |-> AwkSum(log_file, ini, end)]
    /\ UNCHANGED log_file

NextMonitor ==
    /\ \/ \E t \in Instants, size \in Sizes : LogRequest(t, size)
       \/ \E ini \in Instants, end \in Instants : Monitor(ini, end)
    /\ UNCHANGED <<coordVars, saveVars, serialVars, domainVars, zoneVars, renderVars, builderVars, sslVars, vhostVars>>

(***************************************************************************)
(* Apache2Backend.save as a script builder: what one call appends to the   *)
(* script of the pass, and what it raises.                                 *)
(***************************************************************************)
MaxSites == 2

\* webapp.get_directive()[0] of the content of a site
Directives == {"static", "uwsgi", "wsgi"}

\* the names d for which the backend defines get_<d>_directives
SupportedDirectives == {"static", "fpm", "fcgid", "uwsgi"}

\* settings.WEBSITES_DEFAULT_IPS
IpLists == {<<>>, <<"*">>}

\* self.append(statement) of the script builder
append(buffer, statement) == Append(buffer, statement)

\* get_directives: the AttributeError of an unsupported directive name
get_directives(directive) ==
    IF directive \in SupportedDirectives THEN "none" ELSE "AttributeError"

\* get_context: the ValueError of an empty WEBSITES_DEFAULT_IPS
get_context(ips) == IF ips = <<>> THEN "ValueError" ELSE "none"

\* the statement that generates the site configuration
ConfigStatement(site) == [kind |-> "config", text |-> ApacheConf(site, 1)]

\* the statement that enables or disables the site
ToggleStatement(site) ==
    [kind |-> IF site.server_name /\ site.active THEN "enable" ELSE "disable",
     text |-> <<>>]

\* save with the configuration statement appended before the virtual hosts
\* are rendered
BuildSaveEager(buffer, site, directive, ips) ==
    IF get_context(ips) # "none"
    THEN [raised |-> get_context(ips), cmds |-> buffer]
    ELSE IF site.server_name /\ get_directives(directive) # "none"
    THEN [raised |-> get_directives(directive),
          cmds |-> append(buffer, [kind |-> "config", text |-> <<BannerLine(1)>>])]
    ELSE [raised |-> "none",
          cmds |-> append(IF site.server_name
                          THEN append(buffer, ConfigStatement(site))
                          ELSE buffer,
                          ToggleStatement(site))]

\* save(site): the exception it raises, if any, and the script it leaves.
\* Every protocol renders at least one virtual host, and rendering resolves
\* the directive of the site's content before anything is appended.
BuildSave(buffer, site, directive, ips) ==
    IF get_context(ips) # "none"
    THEN [raised |-> get_context(ips), cmds |-> buffer]
    ELSE IF site.server_name /\ get_directives(directive) # "none"
    THEN [raised |-> get_directives(directive), cmds |-> buffer]
    ELSE [raised |-> "none",
          cmds |-> append(IF site.server_name
                          THEN append(buffer, ConfigStatement(site))
                          ELSE buffer,
                          ToggleStatement(site))]

IdleBuilder ==
    /\ cmds = <<>>
    /\ built = [sites |-> 0, raised |-> "none", site |-> NoSite, before |-> <<>>]

\* the pass calls save(site) for its next site
SaveCall(site, directive, ips) ==
    /\ built.sites < MaxSites
    /\ LET r == BuildSave(cmds, site, directive, ips)
       IN  /\ cmds' = r.cmds
           /\ built' = [sites |-> built.sites + 1, raised |-> r.raised,
                        site |-> site, before |-> cmds]

NextBuilder ==
    /\ \E site \in Sites, directive \in Directives, ips \in IpLists :
          SaveCall(site, directive, ips)
    /\ UNCHANGED <<coordVars, saveVars, serialVars, domainVars, zoneVars, renderVars,
                   monitorVars, sslVars, vhostVars>>

(***************************************************************************)
(* Apache2Backend.get_ssl.  A directive value is the list of the values    *)
(* the site declares under a name; directives.get(name) of an undeclared   *)
(* name is None, modelled as the empty list (both are false in Python).    *)
(***************************************************************************)
NumPaths == 2

\* the certificate, key and CA files a site may declare
PathPool == <<"/etc/ssl/site1.pem", "/etc/ssl/site2.pem", "/etc/ssl/site3.pem">>

None == <<>>

\* the values of directives.get('ssl-cert'), 'ssl-key' and 'ssl-ca'
SslValues == {None} \cup {<<PathPool[i]>> : i \in 1..NumPaths}

SslDirectives == [cert : SslValues, key : SslValues, ca : {None, <<PathPool[1]>>}]

\* WEBSITES_DEFAULT_SSL_CERT, _KEY and _CA: a path, or '' when not configured
SslSettings ==
    [WEBSITES_DEFAULT_SSL_CERT : {"", "/etc/ssl/default.crt"},
     WEBSITES_DEFAULT_SSL_KEY  : {"", "/etc/ssl/default.key"},
     WEBSITES_DEFAULT_SSL_CA   : {"", "/etc/ssl/default.ca"}]

\* bool(value) of a list or of None
Truthy(value) == value # <<>>

\* get_ssl(directives): the list of (location, lines) it returns
get_ssl(directives, cfg) ==
    LET declared_pair == Truthy(directives.cert) /\ Truthy(directives.key)
        cert == IF declared_pair THEN directives.cert
                ELSE <<cfg.WEBSITES_DEFAULT_SSL_CERT>>
        key  == IF declared_pair THEN directives.key
                ELSE <<cfg.WEBSITES_DEFAULT_SSL_KEY>>
        ca   == IF declared_pair THEN directives.ca
                ELSE <<cfg.WEBSITES_DEFAULT_SSL_CA>>
    IN  IF ~declared_pair /\ ~(Truthy(cert) /\ Truthy(key))
        THEN <<>>
        ELSE <<[location |-> "",
                lines |-> << <<"SSLEngine", "on">>,
                             <<"SSLCertificateFile", cert[1]>>,
                             <<"SSLCertificateKeyFile", key[1]>> >>
                          \o (IF Truthy(ca)
                              THEN << <<"SSLCACertificateFile", ca[1]>> >>
                              ELSE <<>>)]>>

IdleSsl ==
    ssl_call = [valid |-> FALSE, directives |-> [cert |-> None, key |-> None, ca |-> None],
                cfg |-> [WEBSITES_DEFAULT_SSL_CERT |-> "", WEBSITES_DEFAULT_SSL_KEY |-> "",
                         WEBSITES_DEFAULT_SSL_CA |-> ""],
                fragments |-> <<>>]

\* self.get_ssl(directives) under some settings
GetSsl(directives, cfg) ==
    ssl_call' = [valid |-> TRUE, directives |-> directives, cfg |-> cfg,
                 fragments |-> get_ssl(directives, cfg)]

NextSsl ==
    /\ \E directives \in SslDirectives, cfg \in SslSettings : GetSsl(directives, cfg)
    /\ UNCHANGED <<coordVars, saveVars, serialVars, domainVars, zoneVars, renderVars,
                   monitorVars, builderVars, vhostVars>>

(***************************************************************************)
(* Apache2Backend.render_virtual_host: the order of extra_conf.  A         *)
(* fragment is a (location, conf) pair; its conf is identified by the      *)
(* collector that produced it and its rank in that collector's list.  A    *)
(* location is the sequence of its characters.                             *)
(***************************************************************************)
MaxFragments == 3

NumLocations == 4

\* /a  /ab  /abc  /xy  /abcd
LocationPool == << <<"/", "a">>,
                   <<"/", "a", "b">>,
                   <<"/", "a", "b", "c">>,
                   <<"/", "x", "y">>,
                   <<"/", "a", "b", "c", "d">> >>

Locations == {LocationPool[i] : i \in 1..NumLocations}

\* get_content_directives, get_security, get_redirects, get_proxies,
\* get_saas and WEBSITES_VHOST_EXTRA_DIRECTIVES, in the order they are added
Collectors == <<"content", "security", "redirects", "proxies", "saas", "settings">>

\* the fragments of one collector
FragmentsOf(source, locations) ==
    [i \in 1..Len(locations) |-> [location |-> locations[i], source |-> source, n |-> i]]

\* extra_conf += self.get_ssl(directives), under configured default certificates
SslFragments ==
    LET ssl == get_ssl([cert |-> None, key |-> None, ca |-> None],
                       [WEBSITES_DEFAULT_SSL_CERT |-> "/etc/ssl/default.crt",
                        WEBSITES_DEFAULT_SSL_KEY |-> "/etc/ssl/default.key",
                        WEBSITES_DEFAULT_SSL_CA |-> ""])
    IN  [i \in 1..Len(ssl) |-> [location |-> <<>>, source |-> "ssl", n |-> i]]

\* extra_conf as collected: content, ssl when asked for, then the others
RECURSIVE CollectFrom(_, _)
CollectFrom(k, frags) ==
    IF k > Len(Collectors) THEN <<>>
    ELSE FragmentsOf(Collectors[k], frags[Collectors[k]]) \o CollectFrom(k + 1, frags)

Collect(frags, ssl) ==
    FragmentsOf(Collectors[1], frags[Collectors[1]])
    \o (IF ssl THEN SslFragments ELSE <<>>)
    \o CollectFrom(2, frags)

\* the place of x in a list sorted by descending location length: before
\* every fragment whose location is not longer
RECURSIVE InsertBeforeEqual(_, _)
InsertBeforeEqual(x, sorted) ==
    IF sorted = <<>> THEN <<x>>
    ELSE IF Len(Head(sorted).location) > Len(x.location)
         THEN <<Head(sorted)>> \o InsertBeforeEqual(x, Tail(sorted))
         ELSE <<x>> \o sorted

\* the place of x in a list sorted by descending location length: behind
\* every fragment whose location is at least as long (the sort is stable)
RECURSIVE InsertByLocation(_, _)
InsertByLocation(x, sorted) ==
    IF sorted = <<>> THEN <<x>>
    ELSE IF Len(Head(sorted).location) >= Len(x.location)
         THEN <<Head(sorted)>> \o InsertByLocation(x, Tail(sorted))
         ELSE <<x>> \o sorted

\* sorted(extra_conf, key=lambda a: len(a[0]), reverse=True)
RECURSIVE SortedByLocationReverse(_)
SortedByLocationReverse(extra_conf) ==
    IF extra_conf = <<>> THEN <<>>
    ELSE InsertByLocation(extra_conf[Len(extra_conf)],
                          SortedByLocationReverse(SubSeq(extra_conf, 1, Len(extra_conf) - 1)))

NoFragments == [c \in Range(Collectors) |-> <<>>]

NotRenderedVhost == [valid |-> FALSE, ssl |-> FALSE, collected |-> <<>>, extra_conf |-> <<>>]

\* the number of fragments of the first k collectors
RECURSIVE CountFragments(_, _)
CountFragments(k, frags) ==
    IF k = 0 THEN 0 ELSE Len(frags[Collectors[k]]) + CountFragments(k - 1, frags)

IdleVhost ==
    /\ site_fragments = NoFragments
    /\ vhost = NotRenderedVhost

\* the site gets a content, a directive or a setting that yields a fragment
AddFragment(source, location) ==
    /\ CountFragments(Len(Collectors), site_fragments) < MaxFragments
    /\ site_fragments' = [site_fragments EXCEPT ![source] = Append(@, location)]
    /\ vhost' = NotRenderedVhost

\* self.render_virtual_host(site, context, ssl)
RenderVirtualHost(ssl) ==
    /\ LET extra_conf == Collect(site_fragments, ssl)
       IN  vhost' = [valid |-> TRUE, ssl |-> ssl, collected |-> extra_conf,
                     extra_conf |-> SortedByLocationReverse(extra_conf)]
    /\ UNCHANGED site_fragments

NextVhost ==
    /\ \/ \E source \in Range(Collectors), location \in Locations :
             AddFragment(source, location)
       \/ \E ssl \in BOOLEAN : RenderVirtualHost(ssl)
    /\ UNCHANGED <<coordVars, saveVars, serialVars, domainVars, zoneVars, renderVars,
                   monitorVars, builderVars, sslVars>>

(***************************************************************************)
(* Specifications                                                          *)
(***************************************************************************)
Init ==
    /\ InitCoord /\ IdleSave /\ IdleVhost /\ IdleSsl /\ IdleBuilder /\ IdleMonitor
    /\ IdleRender /\ IdleSerial /\ IdleDomains /\ IdleZone

Spec == Init /\ [][NextCoord]_vars

SpecContend == Init /\ [][NextContend]_vars

SpecSave == Init /\ [][NextSave]_vars

SerialInit ==
    /\ InitCoord /\ IdleSave /\ IdleVhost /\ IdleSsl /\ IdleBuilder /\ IdleMonitor
    /\ IdleRender /\ InitSerial /\ IdleDomains /\ IdleZone

SpecSerial == SerialInit /\ [][NextSerial]_vars

SpecDomains == Init /\ [][NextDomains]_vars

ZoneInit ==
    /\ InitCoord /\ IdleSave /\ IdleVhost /\ IdleSsl /\ IdleBuilder /\ IdleMonitor
    /\ IdleRender /\ IdleSerial /\ IdleDomains /\ InitZone

SpecZone == ZoneInit /\ [][NextZone]_vars

SpecRender == Init /\ [][NextRender]_vars

SpecMonitor == Init /\ [][NextMonitor]_vars

SpecBuilder == Init /\ [][NextBuilder]_vars

SpecSsl == Init /\ [][NextSsl]_vars

SpecVhost == Init /\ [][NextVhost]_vars

(***************************************************************************)
(* Restart coordination: claims C1 - C5                                    *)
(***************************************************************************)
AllDone == \A b \in Backends : pc[b] = "done"

InCriticalSection(b) == pc[b] \in {"grep", "reload", "rm", "write", "mark", "release"}

AnyFlagged == \E b \in Backends : UPDATED_APACHE[b] = 1

\* C1: in a pass whose backends all registered before any commit began, no
\* backend performs the reload/start while another registered backend has not
\* yet completed its commit.
C1_OnlyLastFinisherReloads ==
    ~lateJoin => \A i \in DOMAIN reloadLog : reloadLog[i].pending = {}

\* C2: once every backend has completed its commit (all registered before any
\* commit began), the reload/start was performed exactly once if some
\* participant had UPDATED_APACHE set, and not at all otherwise.
C2_ReloadOnceIffFlagged ==
    (AllDone /\ ~lateJoin) => Len(reloadLog) = IF AnyFlagged THEN 1 ELSE 0

\* C3: at most one backend is between its acquisition of the record and its
\* release of it, also when another backend's prepare appends meanwhile.
C3_MutualExclusion ==
    Cardinality({b \in Backends : InCriticalSection(b)}) <= 1

C5_RecordDestroyed ==
    AllDone => (~normal.exists /\ ~locked.exists)

(***************************************************************************)
(* Deployment script: claim C6                                             *)
(***************************************************************************)
\* C6: a save script executed again for the same site on the host the
\* previous execution left behind rewrites nothing, neither enables nor
\* disables the site and does not set UPDATED_APACHE.
C6_SecondSaveIsNoOp ==
    lastRun.repeat =>
        (~lastRun.wrote /\ ~lastRun.toggled /\ lastRun.UPDATED_APACHE = 0)

\* the second execution carried another banner than the deployed file and
\* found the site enabled
C6_Witness ==
    /\ lastRun.repeat
    /\ applied.server_name /\ applied.active /\ sites_enabled
    /\ sites_available.exists
    /\ sites_available.text[1].content # lastRun.banner

(***************************************************************************)
(* Domain.refresh_serial: claims C7, C8                                    *)
(***************************************************************************)
Counter(n) == n % 100

\* C7: every refresh_serial call that stores a serial stores one strictly
\* greater than the serial stored before it.
C7_SerialStrictlyIncreases ==
    serialCall.outcome = "stored" => serial > serialCall.before

\* a same-day call incremented the counter of a serial that was not behind
\* today's date-based value
C7_Witness ==
    /\ serialCall.outcome = "stored"
    /\ serialCall.before >= generate_zone_serial(serialCall.day)
    /\ serial = serialCall.before + 1

\* C8: a same-day call fails only when the counter of the stored serial is
\* already 99 (the 100th call of the day); every call before it stores the
\* next counter value.
C8_OnlyHundredthCallFails ==
    /\ (serialCall.outcome = "ValueError"
        /\ serialCall.before \div 100 = serialCall.day)
           => Counter(serialCall.before) = 99
    /\ (serialCall.outcome = "stored"
        /\ serialCall.before >= generate_zone_serial(serialCall.day))
           => serial = serialCall.before + 1

(***************************************************************************)
(* Domain.top: claim C9                                                    *)
(***************************************************************************)
\* a is an ancestor of d by label-suffix match
IsAncestor(a, d) ==
    LET la == Split(a)
        ld == Split(d)
    IN  /\ Len(la) < Len(ld)
        /\ SubSeq(ld, Len(ld) - Len(la) + 1, Len(ld)) = la

Ancestors(d) == {a \in registered : IsAncestor(a, d)}

\* C9, whichever stored ancestor is meant: top is null exactly when no
\* stored domain is an ancestor by label-suffix match, and otherwise
\* references a stored ancestor.
C9_TopIsStoredAncestor ==
    \A d \in registered :
        IF Ancestors(d) = {} THEN top[d] = NoDomain
        ELSE top[d] \in Ancestors(d)

(***************************************************************************)
(* Domain.get_records: claim C10                                           *)
(***************************************************************************)
OfType(records, t) == SelectSeq(records, LAMBDA r : r.type = t)

Values(records) == [i \in 1..Len(records) |-> records[i].value]

Words(list) == [i \in 1..Len(list) |-> <<list[i]>>]

\* C10: the resolved records of a top domain whose declared records hold no
\* NS, SOA or MX hold one NS per DOMAINS_DEFAULT_NS entry and one MX per
\* DOMAINS_DEFAULT_MX entry, each in list order, and one SOA; and a type
\* that is declared gets no default record, in any domain.
C10_DefaultsForAbsentTypes ==
    resolved.valid =>
        /\ (zone_top /\ DeclaredTypes(declared) \cap {"NS", "SOA", "MX"} = {}) =>
              /\ Values(OfType(resolved.records, "NS")) = Words(settings.DOMAINS_DEFAULT_NS)
              /\ Values(OfType(resolved.records, "MX")) = Words(settings.DOMAINS_DEFAULT_MX)
              /\ Len(OfType(resolved.records, "SOA")) = 1
        /\ \A t \in DeclaredTypes(declared) :
              Len(OfType(resolved.records, t)) = Len(OfType(declared, t))

\* a top domain with records of its own, none of them NS, SOA or MX, resolved
\* under settings that list two name servers and two mail exchangers
C10_Witness ==
    /\ resolved.valid /\ zone_top
    /\ declared # <<>>
    /\ DeclaredTypes(declared) \cap {"NS", "SOA", "MX"} = {}
    /\ Len(settings.DOMAINS_DEFAULT_NS) = 2
    /\ Len(settings.DOMAINS_DEFAULT_MX) = 2
    /\ Len(OfType(resolved.records, "NS")) = 2

(***************************************************************************)
(* Domain.get_records: claim C11                                           *)
(***************************************************************************)
\* the resolved records hold, of type t, as many records as were declared
NoDefaultOf(t) == Len(OfType(resolved.records, t)) = Len(OfType(declared, t))

HasAddress == {"A", "AAAA"} \cap DeclaredTypes(declared) # {}

\* C11: a domain, top or not, that declares an A or an AAAA record gets
\* neither default address record and, when it declares no MX, gets the
\* DOMAINS_DEFAULT_MX records; a domain that is not top and declares records
\* but no A or AAAA gets no default MX, A or AAAA.
C11_HostRule ==
    resolved.valid =>
        /\ HasAddress =>
              /\ NoDefaultOf("A") /\ NoDefaultOf("AAAA")
              /\ "MX" \notin DeclaredTypes(declared) =>
                    Values(OfType(resolved.records, "MX"))
                        = Words(settings.DOMAINS_DEFAULT_MX)
        /\ (~zone_top /\ declared # <<>> /\ ~HasAddress) =>
              NoDefaultOf("MX") /\ NoDefaultOf("A") /\ NoDefaultOf("AAAA")

\* a subdomain that declares an AAAA record only, resolved under settings
\* that configure a default A record
C11_Witness ==
    /\ resolved.valid /\ ~zone_top
    /\ DeclaredTypes(declared) = {"AAAA"}
    /\ settings.DOMAINS_DEFAULT_A # ""
    /\ Len(OfType(resolved.records, "MX")) = Len(settings.DOMAINS_DEFAULT_MX)
    /\ OfType(resolved.records, "A") = <<>>

(***************************************************************************)
(* Domain.get_records after Domain.refresh_serial: claim C12               *)
(***************************************************************************)
MaxRefresh == 2

\* a domain, top or not, created on the first day with no record yet
ZoneSerialInit ==
    /\ InitCoord /\ IdleSave /\ IdleVhost /\ IdleSsl /\ IdleBuilder /\ IdleMonitor
    /\ IdleRender /\ IdleDomains /\ IdleSerial
    /\ declared = <<>>
    /\ zone_top \in BOOLEAN
    /\ zone_refresh = ""
    /\ settings = [DOMAINS_DEFAULT_NS |-> <<"ns1.orchestra.lan.", "ns2.orchestra.lan.">>,
                   DOMAINS_DEFAULT_MX |-> <<"10 mail.orchestra.lan.">>,
                   DOMAINS_DEFAULT_A |-> "10.0.3.13", DOMAINS_DEFAULT_AAAA |-> ""]
    /\ resolved = NotResolved

\* domain.refresh_serial() on the domain of the zone: an earlier result of
\* get_records is no longer the current one
ZoneRefreshSerial ==
    /\ Counter(serial) < MaxRefresh
    /\ RefreshSerial
    /\ resolved' = NotResolved
    /\ UNCHANGED <<declared, zone_top, zone_refresh, settings>>

NextZoneSerial ==
    \/ /\ \/ \E r \in DeclarableRecords : AddRecord(r)
          \/ GetRecords
       /\ UNCHANGED <<coordVars, saveVars, serialVars, domainVars, renderVars, monitorVars, builderVars, sslVars, vhostVars>>
    \/ /\ ZoneRefreshSerial
       /\ UNCHANGED <<coordVars, saveVars, domainVars, renderVars, monitorVars, builderVars, sslVars, vhostVars>>
    \/ /\ NextDay
       /\ UNCHANGED <<coordVars, saveVars, domainVars, zoneVars, renderVars, monitorVars, builderVars, sslVars, vhostVars>>

SpecZoneSerial == ZoneSerialInit /\ [][NextZoneSerial]_vars

\* C12: the first resolved record of a top domain is an SOA record whose
\* serial field is the serial the domain stores, whether the SOA was declared
\* or synthesized and whatever refresh_serial calls came before.
C12_SOAFirstWithStoredSerial ==
    (resolved.valid /\ zone_top) =>
        /\ resolved.records # <<>>
        /\ Head(resolved.records).type = "SOA"
        /\ Head(resolved.records).value[3] = ToString(serial)

\* a top domain that declares its SOA after another record, resolved after a
\* same-day refresh_serial call moved the serial
C12_Witness ==
    /\ resolved.valid /\ zone_top
    /\ Len(declared) = 2
    /\ declared[1].type # "SOA" /\ declared[2].type = "SOA"
    /\ serialCall.outcome = "stored"
    /\ Counter(serial) > 0

(***************************************************************************)
(* Domain.render_zone: claim C13                                           *)
(***************************************************************************)
\* the characters of the names, in code point order
Alphabet == <<"*", "-", ".", "a", "b", "c", "x", "y">>

Ord(ch) == CHOOSE i \in 1..Len(Alphabet) : Alphabet[i] = ch

\* a < b as Python compares two strings
RECURSIVE NameLess(_, _)
NameLess(a, b) ==
    IF b = <<>> THEN FALSE
    ELSE IF a = <<>> THEN TRUE
    ELSE IF Head(a) # Head(b) THEN Ord(Head(a)) < Ord(Head(b))
    ELSE NameLess(Tail(a), Tail(b))

\* C13: the rendered zone holds the origin first, then the subdomains whose
\* name does not begin with "*" in name order, then those whose name begins
\* with "*", longest name first; no "*" subdomain precedes another one.
C13_RenderOrder ==
    rendered.valid =>
        LET z == rendered.zone
        IN  /\ z[1] = Origin
            /\ Range(SubSeq(z, 2, Len(z))) = Range(subdomain_set)
            /\ \A i, j \in 2..Len(z) :
                  i < j =>
                     /\ StartsWithStar(z[i]) => StartsWithStar(z[j])
                     /\ (~StartsWithStar(z[i]) /\ ~StartsWithStar(z[j]))
                           => NameLess(z[i], z[j])
                     /\ (StartsWithStar(z[i]) /\ StartsWithStar(z[j]))
                           => Len(z[i]) >= Len(z[j])

(***************************************************************************)
(* Apache2Traffic.prepare: claim C14                                       *)
(***************************************************************************)
\* the sizes of the lines with ini <= line_date < end, added up
RECURSIVE WindowSum(_, _, _)
WindowSum(lines, ini, end) ==
    IF lines = <<>> THEN 0
    ELSE (IF ~Before(Head(lines).line_date, ini) /\ Before(Head(lines).line_date, end)
          THEN Head(lines).size ELSE 0)
         + WindowSum(Tail(lines), ini, end)

\* C14: the monitor prints the sum of the sizes of exactly the log lines
\* whose timestamp t satisfies last-poll <= t < now.
C14_WindowSum ==
    monitored.valid =>
        monitored.sum = WindowSum(log_file, monitored.ini, monitored.end)

(***************************************************************************)
(* Apache2Backend.save: claim C15                                          *)
(***************************************************************************)
\* C15: a save(site) that raises leaves the script as it was; one that
\* returns leaves the script it found followed by the whole contribution of
\* the site: its configuration statement when it has a server name, then its
\* enable or disable statement.
C15_AllOrNothing ==
    built.sites > 0 =>
        IF built.raised # "none"
        THEN cmds = built.before
        ELSE cmds = built.before
                    \o (IF built.site.server_name
                        THEN <<ConfigStatement(built.site)>> ELSE <<>>)
                    \o <<ToggleStatement(built.site)>>

\* the second site of a pass names an unsupported directive after the first
\* site was emitted
C15_Witness ==
    /\ built.sites = 2
    /\ built.raised = "AttributeError"
    /\ built.before # <<>>
    /\ cmds = built.before

(***************************************************************************)
(* Apache2Backend.get_ssl: claim C16                                       *)
(***************************************************************************)
\* a certificate and a key are available, from the site or from the defaults
PairAvailable(directives, cfg) ==
    \/ Truthy(directives.cert) /\ Truthy(directives.key)
    \/ cfg.WEBSITES_DEFAULT_SSL_CERT # "" /\ cfg.WEBSITES_DEFAULT_SSL_KEY # ""

\* C16: get_ssl returns an SSL fragment only when a certificate and a key
\* are both available, declared by the site or configured as defaults; it
\* returns nothing when the site declares no pair and the defaults are empty.
C16_NoFragmentWithoutCertificate ==
    ssl_call.valid =>
        (ssl_call.fragments # <<>> => PairAvailable(ssl_call.directives, ssl_call.cfg))

(***************************************************************************)
(* Apache2Backend.render_virtual_host: claim C17                           *)
(***************************************************************************)
\* the rank of a fragment in a list that holds it once
IndexOf(f, list) == CHOOSE i \in 1..Len(list) : list[i] = f

\* C17: the rendered fragments are the collected ones, longest location
\* first, and fragments with equally long locations keep the order in which
\* they were collected.
C17_LongestLocationFirst ==
    vhost.valid =>
        LET out == vhost.extra_conf
        IN  /\ Len(out) = Len(vhost.collected)
            /\ Range(out) = Range(vhost.collected)
            /\ \A i, j \in 1..Len(out) :
                  i < j =>
                     /\ Len(out[i].location) >= Len(out[j].location)
                     /\ Len(out[i].location) = Len(out[j].location) =>
                           IndexOf(out[i], vhost.collected)
                               < IndexOf(out[j], vhost.collected)

\* /a, /ab and /abc collected in that order come out as /abc, /ab, /a
C17_Witness ==
    /\ vhost.valid
    /\ Len(vhost.collected) = 3
    /\ vhost.collected[1].location = LocationPool[1]
    /\ vhost.collected[2].location = LocationPool[2]
    /\ vhost.collected[3].location = LocationPool[3]
    /\ vhost.extra_conf = <<vhost.collected[3], vhost.collected[2], vhost.collected[1]>>

(***************************************************************************)
(* Restart coordination: claim C18                                         *)
(***************************************************************************)
\* C18: in a pass whose backends all registered before any commit began, a
\* backend that releases the record while other backends have not committed
\* has performed no reload/start, and the record it releases holds the entry
\* of each of those backends on a line of its own, no plain entry of the
\* releasing backend, and its entry marked RESTART exactly when its
\* UPDATED_APACHE was set.
C18_NonLastCommitFrame ==
    [][\A b \in Backends :
          (~lateJoin /\ pc[b] = "release" /\ pc'[b] = "done" /\ Pending(b) # {}) =>
              LET lines == Range(SplitLines(normal'.text))
              IN  /\ "reload" \notin ops'[b]
                  /\ \A c \in Pending(b) : <<c>> \in lines
                  /\ <<b>> \notin lines
                  /\ (<<b, RESTART>> \in lines) <=> (UPDATED_APACHE[b] = 1)]_vars

====
